---- MODULE Spec2Model ----
(***************************************************************************)
(* Model of micam's RTSPBridge (src/micam/__init__.py): one bridge object  *)
(* spawns FFmpeg, logs in, opens the WebSocket, and relays every binary     *)
(* message to FFmpeg's stdin through an executor thread, behind a keyframe  *)
(* gate.  The state machine follows run() statement by statement; FFmpeg,   *)
(* the network and the interrupt signal are the environment.                *)
(***************************************************************************)
EXTENDS Integers, Sequences, FiniteSets, TLC

\* Number of binary messages the WebSocket delivers in one run (model bound).
MaxFrames == 3

\* --video-codec values: the two recognised ones and an unrecognised one.
Codecs == {"h264", "hevc", "other"}

\* Binary messages the WebSocket may deliver (msg.data, as byte tuples):
\* empty, tag only, unknown tag 9, tag 2 with 4 bytes, tag 1 with an H.264
\* IDR NAL (0x65) after a 4-byte start code, tag 1 with an HEVC IDR NAL
\* (0x26) after a 3-byte start code, tag 1 with a non-keyframe NAL (0x41),
\* and tag 1 with the IDR NAL header as the last byte (h264) or among the
\* last bytes (hevc) of the message.
Frames ==
    { <<>>,
      <<1>>,
      <<9, 0, 0>>,
      <<2, 7, 7, 7, 7>>,
      <<1, 0, 0, 0, 1, 101, 0, 0, 0>>,
      <<1, 0, 0, 1, 38, 1, 0, 0>>,
      <<1, 0, 0, 0, 1, 65, 0, 0, 0>>,
      <<1, 0, 0, 1, 101>>,
      <<1, 0, 0, 1, 38, 1, 0>> }

\* aiohttp message types run() tests for.
CloseTypes == {"ERROR", "CLOSE", "CLOSING", "CLOSED"}

VARIABLES
    video_codec,            \* self.video_codec
    waiting_for_keyframe,   \* self.waiting_for_keyframe
    process,                \* self.process: "None" or "Popen"
    ffmpeg,                 \* the OS process: "none", "running", "stalled", "exited"
    terminated,             \* process.terminate() has been called
    killed,                 \* process.kill() has been called
    pc,                     \* where main() and the run() coroutine are
    pending,                \* exception travelling through run()'s finally
    msg,                    \* the last message ws.receive() returned
    received,               \* binary messages received, in arrival order
    written,                \* chunks that reached FFmpeg's stdin, in order
    scanned,                \* indices of received messages given to _is_keyframe
    wr,                     \* the executor thread running _process_write
    wjob,                   \* the chunk that thread was handed
    interrupted,            \* the host's interrupt has been delivered
    login                   \* what _login() has done: calls made, answers, result

vars == << video_codec, waiting_for_keyframe, process, ffmpeg, terminated, killed,
           pc, pending, msg, received, written, scanned, wr, wjob, interrupted,
           login >>

\* _login() not called yet: no POST, no GET, no answer, no result.
NoLogin == [posts |-> 0, gets |-> 0, post |-> "none", status |-> "none",
            result |-> "none"]

NoMsg == [type |-> "NONE", data |-> <<>>]
NoJob == [seq |-> 0, data |-> <<>>]

\* data[i] with Python's 0-based index.
At(data, i) == data[i + 1]

\* Lines 191-192 / 206-207: a 3- or 4-byte start code at offset i.
StartCodeAt(data, i) ==
    /\ At(data, i) = 0
    /\ At(data, i + 1) = 0
    /\ \/ (At(data, i + 2) = 0 /\ At(data, i + 3) = 1)
       \/ At(data, i + 2) = 1

\* Lines 195 / 209: offset of the NAL header behind the start code at i.
NalStart(data, i) == IF At(data, i + 2) = 1 THEN i + 3 ELSE i + 4

\* Line 197: data[..] & 0x1f.
H264NalType(b) == b % 32

\* HevcNalType with the H.264 mask 0x1f instead of 0x3f.
HevcNalTypeMask1f(b) == (b \div 2) % 32

\* Line 211: (data[..] >> 1) & 0x3f.
HevcNalType(b) == (b \div 2) % 64

\* Lines 188-201: the h264 scan loop, from offset i.
RECURSIVE ScanH264(_, _)
ScanH264(data, i) ==
    IF ~(i < Len(data) - 4) THEN FALSE
    ELSE IF /\ StartCodeAt(data, i)
            /\ NalStart(data, i) < Len(data)
            /\ H264NalType(At(data, NalStart(data, i))) = 5
         THEN TRUE
         ELSE ScanH264(data, i + 1)

\* Lines 203-216: the hevc scan loop, from offset i.
RECURSIVE ScanHevc(_, _)
ScanHevc(data, i) ==
    IF ~(i < Len(data) - 6) THEN FALSE
    ELSE IF /\ StartCodeAt(data, i)
            /\ NalStart(data, i) < Len(data)
            /\ HevcNalType(At(data, NalStart(data, i))) \in 16..21
         THEN TRUE
         ELSE ScanHevc(data, i + 1)

\* _is_keyframe with the hevc branch running the h264 scan.
is_keyframeOneScan(codec, data) ==
    CASE codec = "h264" -> ScanH264(data, 0)
      [] codec = "hevc" -> ScanH264(data, 0)
      [] OTHER -> TRUE

\* Lines 185-218: _is_keyframe.
is_keyframe(codec, data) ==
    CASE codec = "h264" -> ScanH264(data, 0)
      [] codec = "hevc" -> ScanHevc(data, 0)
      [] OTHER -> TRUE

\* __init__ (lines 26-36); the codec is the only configuration that matters here.
Init ==
    /\ video_codec \in Codecs
    /\ waiting_for_keyframe = TRUE
    /\ process = "None"
    /\ ffmpeg = "none"
    /\ terminated = FALSE
    /\ killed = FALSE
    /\ pc = "start"
    /\ pending = "none"
    /\ msg = NoMsg
    /\ received = <<>>
    /\ written = <<>>
    /\ scanned = {}
    /\ wr = "idle"
    /\ wjob = NoJob
    /\ interrupted = FALSE
    /\ login = NoLogin

(***************************************************************************)
(* run(), lines 120-183, and what it calls                                 *)
(***************************************************************************)

\* Lines 65-107 and 122: Popen succeeds; run() goes on to await _login().
StartFfmpeg ==
    /\ pc = "start"
    /\ process' = "Popen"
    /\ ffmpeg' = "running"
    /\ pc' = "login_post"
    /\ UNCHANGED << video_codec, waiting_for_keyframe, terminated, killed, pending,
                    msg, received, written, scanned, wr, wjob, interrupted, login >>

\* Lines 102 and 122: Popen raises (no ffmpeg binary); nothing in run() or
\* main() catches it.
StartFfmpegFails ==
    /\ pc = "start"
    /\ pc' = "raised"
    /\ UNCHANGED << video_codec, waiting_for_keyframe, process, ffmpeg, terminated,
                    killed, pending, msg, received, written, scanned, wr, wjob,
                    interrupted, login >>

\* LoginFalse without the _stop_ffmpeg() call of line 128.
LoginFalseNoStop == pc' = "returned"

\* Lines 127-129: _login() returned False: _stop_ffmpeg(), then return.
LoginFalse == pc' = "stop"

\* Lines 44-59: the POST answers.  200 with a JSON body goes on to the
\* login_status call; another status returns False; a transport exception,
\* or a 200 whose body response.json() cannot read, goes to line 60.
LoginPost ==
    /\ pc = "login_post"
    /\ \E r \in {"200", "200-no-json", "other", "exception"} :
          /\ login' = [login EXCEPT !.posts = @ + 1,
                                    !.post = r,
                                    !.result = IF r = "other" THEN "False" ELSE @]
          /\ CASE r = "200" -> pc' = "login_status"
               [] r = "other" -> LoginFalse
               [] OTHER -> pc' = "login_sleep"
    /\ UNCHANGED << video_codec, waiting_for_keyframe, process, ffmpeg, terminated,
                    killed, pending, msg, received, written, scanned, wr, wjob,
                    interrupted >>

\* LoginStatus without the test of line 52: any answer counts as success.
LoginStatusAnyAnswer ==
    /\ pc = "login_status"
    /\ \E r \in {"200", "other", "exception"} :
          /\ login' = [login EXCEPT !.gets = @ + 1,
                                    !.status = r,
                                    !.result = IF r = "exception" THEN @ ELSE "True"]
          /\ CASE r = "exception" -> pc' = "login_sleep"
               [] OTHER -> pc' = "connect"
    /\ UNCHANGED << video_codec, waiting_for_keyframe, process, ffmpeg, terminated,
                    killed, pending, msg, received, written, scanned, wr, wjob,
                    interrupted >>

\* Lines 51-56: the login_status GET answers.
LoginStatus ==
    /\ pc = "login_status"
    /\ \E r \in {"200", "other", "exception"} :
          /\ login' = [login EXCEPT !.gets = @ + 1,
                                    !.status = r,
                                    !.result = CASE r = "200" -> "True"
                                                 [] r = "other" -> "False"
                                                 [] OTHER -> @]
          /\ CASE r = "200" -> pc' = "connect"
               [] r = "other" -> LoginFalse
               [] OTHER -> pc' = "login_sleep"
    /\ UNCHANGED << video_codec, waiting_for_keyframe, process, ffmpeg, terminated,
                    killed, pending, msg, received, written, scanned, wr, wjob,
                    interrupted >>

\* Lines 60-63: after the 3 s sleep _login() returns False.
LoginSleepDone ==
    /\ pc = "login_sleep"
    /\ login' = [login EXCEPT !.result = "False"]
    /\ LoginFalse
    /\ UNCHANGED << video_codec, waiting_for_keyframe, process, ffmpeg, terminated,
                    killed, pending, msg, received, written, scanned, wr, wjob,
                    interrupted >>

\* Line 137: the WebSocket opens.
WsConnect ==
    /\ pc = "connect"
    /\ pc' = "receive"
    /\ UNCHANGED << video_codec, waiting_for_keyframe, process, ffmpeg, terminated,
                    killed, pending, msg, received, written, scanned, wr, wjob,
                    interrupted, login >>

\* Lines 137, 179-182: ws_connect raises; except Exception logs, finally stops.
WsConnectFails ==
    /\ pc = "connect"
    /\ pc' = "stop"
    /\ UNCHANGED << video_codec, waiting_for_keyframe, process, ffmpeg, terminated,
                    killed, pending, msg, received, written, scanned, wr, wjob,
                    interrupted, login >>

\* GateStep with the gate recomputed from every message instead of latched.
GateStepRearm(waiting, codec, data) ==
    [ scan    |-> waiting,
      forward |-> (~waiting) \/ is_keyframe(codec, data),
      waiting |-> ~is_keyframe(codec, data) ]

\* GateStep with the keyframe test applied to every message, gate open or not.
GateStepAlwaysScan(waiting, codec, data) ==
    [ scan    |-> TRUE,
      forward |-> is_keyframe(codec, data),
      waiting |-> waiting /\ ~is_keyframe(codec, data) ]

\* Lines 153-159: what the gate does with one binary message: whether it is
\* scanned, whether it goes on to process_write, and the gate afterwards.
GateStep(waiting, codec, data) ==
    [ scan    |-> waiting,
      forward |-> (~waiting) \/ is_keyframe(codec, data),
      waiting |-> waiting /\ ~is_keyframe(codec, data) ]

\* Lines 220-229: process_write hands the chunk to the executor and awaits it;
\* without a process handle it raises RuntimeError (caught at line 179).
process_write(n, data) ==
    IF process = "None"
    THEN /\ pc' = "stop"
         /\ UNCHANGED << wr, wjob >>
    ELSE /\ wr' = "queued"
         /\ wjob' = [seq |-> n, data |-> data]
         /\ pc' = "write"

\* Lines 142, 147-161: ws.receive() returns the BINARY message f.
ReceiveFrame(f) ==
    /\ pc = "receive"
    /\ received' = Append(received, f)
    /\ msg' = [type |-> "BINARY", data |-> f]
    /\ LET n == Len(received) + 1
           g == GateStep(waiting_for_keyframe, video_codec, f)
       IN  /\ scanned' = IF g.scan THEN scanned \cup {n} ELSE scanned
           /\ waiting_for_keyframe' = g.waiting
           /\ IF g.forward
              THEN process_write(n, f)
              ELSE /\ pc' = "receive"
                   /\ UNCHANGED << wr, wjob >>
    /\ UNCHANGED << video_codec, process, ffmpeg, terminated, killed, pending,
                    written, interrupted, login >>

\* ReceiveFrame, for as many messages as the model lets one run receive.
ReceiveBinary(f) ==
    /\ Len(received) < MaxFrames
    /\ ReceiveFrame(f)

\* ReceiveClose without the break of lines 173 and 176: the loop goes on.
ReceiveCloseContinue ==
    /\ pc = "receive"
    /\ \E t \in CloseTypes : msg' = [type |-> t, data |-> <<>>]
    /\ UNCHANGED << video_codec, waiting_for_keyframe, process, ffmpeg, terminated,
                    killed, pc, pending, received, written, scanned, wr, wjob,
                    interrupted, login >>

\* Lines 171-176: an ERROR, CLOSE, CLOSING or CLOSED message breaks the loop.
ReceiveClose ==
    /\ pc = "receive"
    /\ \E t \in CloseTypes : msg' = [type |-> t, data |-> <<>>]
    /\ pc' = "stop"
    /\ UNCHANGED << video_codec, waiting_for_keyframe, process, ffmpeg, terminated,
                    killed, pending, received, written, scanned, wr, wjob,
                    interrupted, login >>

\* Lines 177-178: any other message type is logged and the loop goes on.
ReceiveOther ==
    /\ pc = "receive"
    /\ msg' = [type |-> "TEXT", data |-> <<>>]
    /\ UNCHANGED << video_codec, waiting_for_keyframe, process, ffmpeg, terminated,
                    killed, pc, pending, received, written, scanned, wr, wjob,
                    interrupted, login >>

\* Lines 142-145: no message within 60 s breaks the loop.
ReceiveTimeout ==
    /\ pc = "receive"
    /\ pc' = "stop"
    /\ UNCHANGED << video_codec, waiting_for_keyframe, process, ffmpeg, terminated,
                    killed, pending, msg, received, written, scanned, wr, wjob,
                    interrupted, login >>

\* Line 161: the awaited write finished; back to ws.receive().
WriteDone ==
    /\ pc = "write"
    /\ wr = "done"
    /\ wr' = "idle"
    /\ pc' = "receive"
    /\ UNCHANGED << video_codec, waiting_for_keyframe, process, ffmpeg, terminated,
                    killed, pending, msg, received, written, scanned, wjob,
                    interrupted, login >>

\* WriteTimeout without process_stderr() and the break of lines 164-165: the
\* loop goes back to ws.receive() with the executor thread still busy.
WriteTimeoutContinue ==
    /\ pc = "write"
    /\ wr \in {"queued", "writing", "flushing"}
    /\ pc' = "receive"
    /\ UNCHANGED << video_codec, waiting_for_keyframe, process, ffmpeg, terminated,
                    killed, pending, msg, received, written, scanned, wr, wjob,
                    interrupted, login >>

\* Lines 161-165: the write has not finished after 10 s; wait_for gives up on
\* it (the executor thread keeps running) and run() calls process_stderr().
WriteTimeout ==
    /\ pc = "write"
    /\ wr \in {"queued", "writing", "flushing"}
    /\ pc' = "stderr_timeout"
    /\ UNCHANGED << video_codec, waiting_for_keyframe, process, ffmpeg, terminated,
                    killed, pending, msg, received, written, scanned, wr, wjob,
                    interrupted, login >>

\* Lines 167-169: the write raised BrokenPipeError; run() calls process_stderr().
WriteBrokenPipe ==
    /\ pc = "write"
    /\ wr = "broken"
    /\ wr' = "idle"
    /\ pc' = "stderr_broken"
    /\ UNCHANGED << video_codec, waiting_for_keyframe, process, ffmpeg, terminated,
                    killed, pending, msg, received, written, scanned, wjob,
                    interrupted, login >>

\* Lines 241-256, then break: process.stderr.read() is a blocking read to end
\* of file on the event-loop thread; it returns once FFmpeg has exited.
ProcessStderr ==
    /\ pc \in {"stderr_timeout", "stderr_broken"}
    /\ process = "Popen"
    /\ ffmpeg = "exited"
    /\ pc' = "stop"
    /\ UNCHANGED << video_codec, waiting_for_keyframe, process, ffmpeg, terminated,
                    killed, pending, msg, received, written, scanned, wr, wjob,
                    interrupted, login >>

\* What run() does once _stop_ffmpeg is through: a pending CancelledError
\* goes on out of run(), otherwise run() returns.
AfterStop == IF pending = "cancel" THEN "cancelled" ELSE "returned"

\* StopFfmpeg without the poll() test of line 112: terminate() is sent to
\* whatever the handle holds.
StopFfmpegNoPoll ==
    /\ pc = "stop"
    /\ IF process = "None"
       THEN /\ pc' = AfterStop
            /\ UNCHANGED << process, terminated >>
       ELSE /\ terminated' = TRUE
            /\ pc' = "stop_wait"
            /\ UNCHANGED process
    /\ UNCHANGED << video_codec, waiting_for_keyframe, ffmpeg, killed, pending, msg,
                    received, written, scanned, wr, wjob, interrupted, login >>

\* Lines 109-113 and 118: _stop_ffmpeg up to process.wait(): a handle whose
\* process has not exited gets terminate(); an exited one is just cleared.
StopFfmpeg ==
    /\ pc = "stop"
    /\ IF process = "None"
       THEN /\ pc' = AfterStop
            /\ UNCHANGED << process, terminated >>
       ELSE IF ffmpeg \in {"running", "stalled"}
            THEN /\ terminated' = TRUE
                 /\ pc' = "stop_wait"
                 /\ UNCHANGED process
            ELSE /\ process' = "None"
                 /\ pc' = AfterStop
                 /\ UNCHANGED terminated
    /\ UNCHANGED << video_codec, waiting_for_keyframe, ffmpeg, killed, pending, msg,
                    received, written, scanned, wr, wjob, interrupted, login >>

\* Lines 114-115 and 118: FFmpeg exited within the 5 s grace period.
StopWaitExited ==
    /\ pc = "stop_wait"
    /\ ffmpeg = "exited"
    /\ process' = "None"
    /\ pc' = AfterStop
    /\ UNCHANGED << video_codec, waiting_for_keyframe, ffmpeg, terminated, killed,
                    pending, msg, received, written, scanned, wr, wjob, interrupted, login >>

\* Lines 116-118: the grace period ran out; kill() ends the process.
StopWaitTimeout ==
    /\ pc = "stop_wait"
    /\ ffmpeg \in {"running", "stalled"}
    /\ killed' = TRUE
    /\ ffmpeg' = "exited"
    /\ process' = "None"
    /\ pc' = AfterStop
    /\ UNCHANGED << video_codec, waiting_for_keyframe, terminated, pending, msg,
                    received, written, scanned, wr, wjob, interrupted, login >>

(***************************************************************************)
(* The executor thread, _process_write, lines 231-239                      *)
(***************************************************************************)

\* Line 233: the thread reads self.process.stdin and calls write().
WriterStart ==
    /\ wr = "queued"
    /\ wr' = IF process = "None" THEN "failed" ELSE "writing"
    /\ UNCHANGED << video_codec, waiting_for_keyframe, process, ffmpeg, terminated,
                    killed, pc, pending, msg, received, written, scanned, wjob,
                    interrupted, login >>

\* Line 233: stdin.write() returns (the chunk sits in the stream's buffer).
WriterWrite ==
    /\ wr = "writing"
    /\ wr' = "flushing"
    /\ UNCHANGED << video_codec, waiting_for_keyframe, process, ffmpeg, terminated,
                    killed, pc, pending, msg, received, written, scanned, wjob,
                    interrupted, login >>

\* WriterFlush with the chunk put in front of what was written before.
WriterFlushPrepend ==
    /\ wr = "flushing"
    /\ process = "Popen"
    /\ ffmpeg = "running"
    /\ written' = << wjob >> \o written
    /\ wr' = "done"
    /\ UNCHANGED << video_codec, waiting_for_keyframe, process, ffmpeg, terminated,
                    killed, pc, pending, msg, received, scanned, wjob, interrupted, login >>

\* Line 234: the thread reads self.process.stdin again and flush() pushes the
\* chunk into the pipe, which FFmpeg must be draining.
WriterFlush ==
    /\ wr = "flushing"
    /\ process = "Popen"
    /\ ffmpeg = "running"
    /\ written' = Append(written, wjob)
    /\ wr' = "done"
    /\ UNCHANGED << video_codec, waiting_for_keyframe, process, ffmpeg, terminated,
                    killed, pc, pending, msg, received, scanned, wjob, interrupted, login >>

\* Lines 234, 237-239: self.process is None by the time of the flush.
WriterFlushNoHandle ==
    /\ wr = "flushing"
    /\ process = "None"
    /\ wr' = "failed"
    /\ UNCHANGED << video_codec, waiting_for_keyframe, process, ffmpeg, terminated,
                    killed, pc, pending, msg, received, written, scanned, wjob,
                    interrupted, login >>

\* Lines 235-236: the pipe's reader is gone.
WriterBrokenPipe ==
    /\ wr = "flushing"
    /\ process = "Popen"
    /\ ffmpeg = "exited"
    /\ wr' = "broken"
    /\ UNCHANGED << video_codec, waiting_for_keyframe, process, ffmpeg, terminated,
                    killed, pc, pending, msg, received, written, scanned, wjob,
                    interrupted, login >>

(***************************************************************************)
(* Environment: FFmpeg and the host's interrupt                            *)
(***************************************************************************)

\* FFmpeg stops reading its stdin but stays alive.
FfmpegStall ==
    /\ ffmpeg = "running"
    /\ ffmpeg' = "stalled"
    /\ UNCHANGED << video_codec, waiting_for_keyframe, process, terminated, killed,
                    pc, pending, msg, received, written, scanned, wr, wjob,
                    interrupted, login >>

\* FFmpeg exits: on its own while running, or on SIGTERM.
FfmpegExit ==
    /\ \/ ffmpeg = "running"
       \/ (ffmpeg = "stalled" /\ terminated)
    /\ ffmpeg' = "exited"
    /\ UNCHANGED << video_codec, waiting_for_keyframe, process, terminated, killed,
                    pc, pending, msg, received, written, scanned, wr, wjob,
                    interrupted, login >>

\* Lines 293-296 with 38-63, 127: asyncio.run cancels the task while it awaits
\* inside _login(); CancelledError is no Exception, and line 127 is outside
\* the try, so it leaves run() at once.
InterruptLogin ==
    /\ ~interrupted
    /\ pc \in {"login_post", "login_status", "login_sleep"}
    /\ interrupted' = TRUE
    /\ pending' = "cancel"
    /\ pc' = "cancelled"
    /\ UNCHANGED << video_codec, waiting_for_keyframe, process, ffmpeg, terminated,
                    killed, msg, received, written, scanned, wr, wjob, login >>

\* Lines 293-296 with 136-182: the task is cancelled while it awaits
\* ws_connect, ws.receive or process_write; the finally clause runs.
InterruptStreaming ==
    /\ ~interrupted
    /\ pc \in {"connect", "receive", "write"}
    /\ interrupted' = TRUE
    /\ pending' = "cancel"
    /\ pc' = "stop"
    /\ UNCHANGED << video_codec, waiting_for_keyframe, process, ffmpeg, terminated,
                    killed, msg, received, written, scanned, wr, wjob, login >>

\* Lines 293-294: asyncio.run(bridge.run()) returns and main() ends; there is
\* no loop around it.
MainReturns ==
    /\ pc = "returned"
    /\ pc' = "exit"
    /\ UNCHANGED << video_codec, waiting_for_keyframe, process, ffmpeg, terminated,
                    killed, pending, msg, received, written, scanned, wr, wjob,
                    interrupted, login >>

\* Lines 295-296: the interrupt surfaces as KeyboardInterrupt; main() logs
\* "Stopped by user" and ends.
MainInterrupted ==
    /\ pc = "cancelled"
    /\ pc' = "exit"
    /\ UNCHANGED << video_codec, waiting_for_keyframe, process, ffmpeg, terminated,
                    killed, pending, msg, received, written, scanned, wr, wjob,
                    interrupted, login >>

\* Steps of the program itself (the coroutine and its executor thread).
ProgramStep ==
    \/ StartFfmpeg \/ StartFfmpegFails
    \/ LoginPost \/ LoginStatus \/ LoginSleepDone
    \/ WsConnect \/ WsConnectFails
    \/ (\E f \in Frames : ReceiveBinary(f))
    \/ ReceiveClose \/ ReceiveOther \/ ReceiveTimeout
    \/ WriteDone \/ WriteTimeout \/ WriteBrokenPipe
    \/ ProcessStderr
    \/ StopFfmpeg \/ StopWaitExited \/ StopWaitTimeout
    \/ WriterStart \/ WriterWrite \/ WriterFlush \/ WriterFlushNoHandle
    \/ WriterBrokenPipe
    \/ MainReturns \/ MainInterrupted

\* Steps of the environment; nothing obliges them to happen.
EnvStep == FfmpegStall \/ FfmpegExit \/ InterruptLogin \/ InterruptStreaming

Next == ProgramStep \/ EnvStep

Spec == Init /\ [][Next]_vars

\* The program's own steps are taken when they can be: the event loop runs a
\* ready coroutine, timeouts fire, the executor thread is scheduled.
FairSpec == Spec /\ WF_vars(ProgramStep)

(***************************************************************************)
(* The gate on one payload: every payload over a small alphabet            *)
(***************************************************************************)

\* Longest payload handed to the gate (model bound).
MaxPayloadLen == 7

\* Bytes the payloads are made of: 0x00, 0x01, 0x65 (h264 type 5, hevc type
\* 50) and 0x26 (hevc type 19, h264 type 6).
ScanBytes == {0, 1, 101, 38}

\* Every payload of up to MaxPayloadLen such bytes.
Payloads == UNION { [1..n -> ScanBytes] : n \in 0..MaxPayloadLen }

\* Lines 137-138: the WebSocket has just opened; nothing received, gate set.
ScanInit ==
    /\ video_codec \in Codecs
    /\ waiting_for_keyframe = TRUE
    /\ process = "Popen"
    /\ ffmpeg = "running"
    /\ terminated = FALSE
    /\ killed = FALSE
    /\ pc = "receive"
    /\ pending = "none"
    /\ msg = NoMsg
    /\ received = <<>>
    /\ written = <<>>
    /\ scanned = {}
    /\ wr = "idle"
    /\ wjob = NoJob
    /\ interrupted = FALSE
    /\ login = [posts |-> 1, gets |-> 1, post |-> "200", status |-> "200",
                result |-> "True"]

\* Lines 142-161: the first binary message arrives and meets the gate.
ScanFirstFrame ==
    /\ Len(received) = 0
    /\ \E f \in Payloads : ReceiveFrame(f)

ScanSpec == ScanInit /\ [][ScanFirstFrame]_vars

(***************************************************************************)
(* One fixed feed: two video frames, an audio frame, a frame of tag 9      *)
(***************************************************************************)

\* The messages, in order: tag 1 with 8 bytes and no start code; tag 1 with
\* 00 00 00 01 65 and three more bytes; tag 2 with 4 bytes; tag 9 with 3 bytes.
Scenario ==
    << <<1, 7, 7, 7, 7, 7, 7, 7, 7>>,
       <<1, 0, 0, 0, 1, 101, 0, 0, 0>>,
       <<2, 7, 7, 7, 7>>,
       <<9, 0, 0, 0>> >>

\* Lines 142, 147-161: ws.receive() returns the next message of the feed.
ScenarioReceive ==
    /\ Len(received) < Len(Scenario)
    /\ ReceiveFrame(Scenario[Len(received) + 1])

\* ProgramStep with the WebSocket delivering the feed.
ScenarioStep ==
    \/ StartFfmpeg \/ StartFfmpegFails
    \/ LoginPost \/ LoginStatus \/ LoginSleepDone
    \/ WsConnect \/ WsConnectFails
    \/ ScenarioReceive
    \/ ReceiveClose \/ ReceiveOther \/ ReceiveTimeout
    \/ WriteDone \/ WriteTimeout \/ WriteBrokenPipe
    \/ ProcessStderr
    \/ StopFfmpeg \/ StopWaitExited \/ StopWaitTimeout
    \/ WriterStart \/ WriterWrite \/ WriterFlush \/ WriterFlushNoHandle
    \/ WriterBrokenPipe
    \/ MainReturns \/ MainInterrupted

ScenarioSpec == Init /\ [][ScenarioStep \/ EnvStep]_vars

(***************************************************************************)
(* _stop_ffmpeg() called in every handle state, and called again           *)
(***************************************************************************)

\* The states _stop_ffmpeg() can be called in: no handle (line 34), or a
\* handle whose process runs, has stopped reading, or has exited; the
\* executor thread idle or still busy with a chunk (line 161's timeout); a
\* cancellation pending or not.
StopInit ==
    /\ video_codec = "h264"
    /\ \E h \in { <<"None", "none">>, <<"Popen", "running">>,
                  <<"Popen", "stalled">>, <<"Popen", "exited">> } :
          /\ process = h[1]
          /\ ffmpeg = h[2]
          /\ wr \in IF h[1] = "None" THEN {"idle"}
                    ELSE {"idle", "queued", "writing", "flushing"}
    /\ IF wr = "idle"
       THEN /\ waiting_for_keyframe = TRUE
            /\ received = <<>>
            /\ wjob = NoJob
            /\ scanned = {}
       ELSE /\ waiting_for_keyframe = FALSE
            /\ received = << <<1, 0, 0, 0, 1, 101, 0, 0, 0>> >>
            /\ wjob = [seq |-> 1, data |-> <<1, 0, 0, 0, 1, 101, 0, 0, 0>>]
            /\ scanned = {1}
    /\ terminated = FALSE
    /\ killed = FALSE
    /\ pc = "stop"
    /\ pending \in {"none", "cancel"}
    /\ msg = NoMsg
    /\ written = <<>>
    /\ interrupted = (pending = "cancel")
    /\ login = IF process = "None" THEN NoLogin
               ELSE [posts |-> 1, gets |-> 1, post |-> "200", status |-> "200",
                     result |-> "True"]

\* _stop_ffmpeg() is called again right after it returned.
StopAgain ==
    /\ pc \in {"returned", "cancelled"}
    /\ pc' = "stop"
    /\ UNCHANGED << video_codec, waiting_for_keyframe, process, ffmpeg, terminated,
                    killed, pending, msg, received, written, scanned, wr, wjob,
                    interrupted, login >>

StopNext ==
    \/ StopFfmpeg \/ StopWaitExited \/ StopWaitTimeout \/ StopAgain
    \/ WriterStart \/ WriterWrite \/ WriterFlush \/ WriterFlushNoHandle
    \/ WriterBrokenPipe
    \/ FfmpegStall \/ FfmpegExit

StopSpec == StopInit /\ [][StopNext]_vars

(***************************************************************************)
(* Properties                                                              *)
(***************************************************************************)

\* Indices (in arrival order) of the messages whose chunk reached the sink.
WrittenSeqs == { written[k].seq : k \in DOMAIN written }

\* A NAL header byte of a keyframe: type 5 for h264, 16..21 for hevc.
KeyNalByte(codec, b) ==
    \/ (codec = "h264" /\ b % 32 = 5)
    \/ (codec = "hevc" /\ (b \div 2) % 64 \in 16..21)

\* The payload holds, at some position, a start code (00 00 01, which is also
\* the tail of 00 00 00 01) followed by a keyframe NAL header.
QualifyingNal(codec, data) ==
    \E p \in 4..Len(data) :
        /\ data[p - 3] = 0 /\ data[p - 2] = 0 /\ data[p - 1] = 1
        /\ KeyNalByte(codec, data[p])

\* A frame of the tagged format: at least 2 bytes, tag 1 (video) or 2 (audio).
WellFormed(f) == Len(f) >= 2 /\ f[1] \in {1, 2}

\* Index of the first received message that _is_keyframe accepts.
FlipIndex ==
    CHOOSE i \in 1..Len(received) :
        /\ is_keyframe(video_codec, received[i])
        /\ \A j \in 1..(i - 1) : ~is_keyframe(video_codec, received[j])

\* C1: the chunks written to FFmpeg's stdin are an order-preserving
\* subsequence of the binary messages received: each written chunk is the
\* unaltered data of one received message, and the chunks appear in strictly
\* increasing arrival order (so none is written twice or out of order).
C1_WrittenIsSubsequence ==
    /\ \A k \in DOMAIN written :
          /\ written[k].seq \in 1..Len(received)
          /\ written[k].data = received[written[k].seq]
    /\ \A j, k \in DOMAIN written : j < k => written[j].seq < written[k].seq

\* Two chunks have been written, and an earlier message was dropped.
C1_Witness == Len(written) >= 2 /\ written[1].seq > 1

\* C2: with a recognised codec, as long as no received payload holds a
\* qualifying keyframe NAL unit the gate stays set and nothing is written or
\* handed to the writer; every chunk written was received no earlier than the
\* first payload that holds one.
C2_NothingBeforeKeyframe ==
    video_codec \in {"h264", "hevc"} =>
        /\ waiting_for_keyframe => (written = <<>> /\ wr = "idle")
        /\ (\A j \in 1..Len(received) : ~QualifyingNal(video_codec, received[j]))
              => waiting_for_keyframe
        /\ \A k \in DOMAIN written :
              \E j \in 1..written[k].seq : QualifyingNal(video_codec, received[j])

\* hevc: two payloads without a keyframe were dropped, the third was written.
C2_Witness ==
    /\ video_codec = "hevc"
    /\ Len(received) = 3
    /\ ~QualifyingNal(video_codec, received[1])
    /\ ~QualifyingNal(video_codec, received[2])
    /\ Len(received[1]) > 1 /\ Len(received[2]) > 1
    /\ WrittenSeqs = {3}

\* C3: the gate starts set and only ever goes from set to clear, and it does so
\* in a step that receives the first message _is_keyframe accepts.
C3_GateOpensOnce ==
    /\ (pc = "start" => waiting_for_keyframe)
    /\ [][ /\ (~waiting_for_keyframe => ~waiting_for_keyframe')
           /\ (waiting_for_keyframe /\ ~waiting_for_keyframe' =>
                 /\ received' = Append(received, msg'.data)
                 /\ is_keyframe(video_codec, msg'.data)
                 /\ \A j \in 1..Len(received) :
                       ~is_keyframe(video_codec, received[j])) ]_vars

\* The gate is clear and the last message received is one the scan rejects.
C3_Witness ==
    /\ video_codec \in {"h264", "hevc"}
    /\ ~waiting_for_keyframe
    /\ Len(received) >= 2
    /\ ~is_keyframe(video_codec, received[Len(received)])

\* C4: once the gate is clear, the message that cleared it and every binary
\* message received after it has been handed to the sink writer (it is
\* written, or it is the write in progress that ends the session), and none
\* received after the clearing one was scanned.
C4_ForwardedAfterFlip ==
    ~waiting_for_keyframe =>
        /\ \A i \in FlipIndex..Len(received) :
              i \in WrittenSeqs \/ (i = Len(received) /\ wjob.seq = i)
        /\ \A i \in scanned : i <= FlipIndex

\* A message the scan rejects came after the clearing one and was written.
C4_Witness ==
    /\ video_codec \in {"h264", "hevc"}
    /\ ~waiting_for_keyframe
    /\ \E i \in WrittenSeqs :
          i > FlipIndex /\ ~is_keyframe(video_codec, received[i])

\* C5: when run() returns (no interrupt), _stop_ffmpeg has run: the handle is
\* cleared and FFmpeg is no longer running; it was killed only after a
\* terminate() it did not obey.
C5_ReturnMeansTornDown ==
    pc = "returned" =>
        /\ process = "None"
        /\ ffmpeg = "exited"
        /\ (killed => terminated)

\* run() returned after streaming, and FFmpeg had to be killed.
C5_Witness == pc = "returned" /\ killed /\ Len(written) >= 1

\* C6: a write that misses its 10 s deadline leads to teardown with FFmpeg
\* terminated, whatever FFmpeg does.
C6_WriteTimeoutLeadsToTeardown ==
    (pc = "stderr_timeout") ~> (process = "None" /\ ffmpeg = "exited")

\* C7: absent an external interrupt the supervisor has no terminal state (it
\* keeps starting new attempts), so main() ends only when interrupted.
C7_NoTerminalState == pc = "exit" => interrupted

\* C8: when the interrupt ends run(), teardown has completed first: the
\* handle is cleared and FFmpeg is no longer running.
C8_InterruptExitsAfterTeardown ==
    pc = "cancelled" => (process = "None" /\ ffmpeg = "exited")

\* C9: for every well-formed frame, what is forwarded is exactly bytes
\* 1..end of the frame, without the tag byte.
C9_PayloadWithoutTag ==
    \A k \in DOMAIN written :
        WellFormed(received[written[k].seq]) =>
            written[k].data = Tail(received[written[k].seq])

\* C10: no byte of a malformed frame (shorter than 2 bytes, or with a tag
\* other than 1 and 2) is written to a sink.
C10_MalformedDropped ==
    \A k \in DOMAIN written :
        ~WellFormed(received[written[k].seq]) => written[k].data = <<>>

\* Message number i was handed to the sink writer: it is written, or it is
\* the chunk of the last write submitted.
Forwarded(i) == i \in WrittenSeqs \/ wjob.seq = i

\* A well-formed audio frame: at least 2 bytes, tag 2.
AudioFrame(f) == Len(f) >= 2 /\ f[1] = 2

\* C11: every audio frame (tag 2) received is forwarded to its sink, whatever
\* the state of the keyframe gate.
C11_AudioBypassesGate ==
    \A i \in 1..Len(received) : AudioFrame(received[i]) => Forwarded(i)

\* C12: with a recognised codec, the first payload clears the gate if and
\* only if it holds, at any position, a start code followed by a keyframe NAL
\* header (also when that header is at the very end of the payload).
C12_FlipIffQualifying ==
    (video_codec \in {"h264", "hevc"} /\ Len(received) = 1) =>
        (~waiting_for_keyframe <=> QualifyingNal(video_codec, received[1]))

\* The scan is sound: a payload that clears the gate holds a keyframe NAL.
ScanSound ==
    (video_codec \in {"h264", "hevc"} /\ Len(received) = 1 /\ ~waiting_for_keyframe)
        => QualifyingNal(video_codec, received[1])

C14_LossyNonBlocking ==
    /\ ~(pc = "write" /\ ffmpeg = "stalled")
    /\ pc # "stderr_timeout"

\* C15: _login() returns True exactly when the POST answered 200 and the
\* login_status GET that follows answered 200; for every other combination,
\* a transport exception included, it returns False and raises nothing; it
\* issues each call at most once, the GET only after a POST that answered
\* 200; only a cancellation leaves it without a result.
C15_LoginResult ==
    /\ login.posts <= 1 /\ login.gets <= 1
    /\ (login.gets = 1 => (login.posts = 1 /\ login.post = "200"))
    /\ (login.result = "True" => (login.post = "200" /\ login.status = "200"))
    /\ (login.result = "False" => ~(login.post = "200" /\ login.status = "200"))
    /\ ((login.post = "200" /\ login.status = "200") => login.result = "True")
    /\ (login.result # "none" =>
            pc \notin {"start", "login_post", "login_status", "login_sleep"})
    /\ (login.result = "none" =>
            \/ pc \in {"start", "login_post", "login_status", "login_sleep"}
            \/ (pc = "raised" /\ login = NoLogin)
            \/ (interrupted /\ pc \in {"cancelled", "exit"}))

\* The POST answered 200 and login_status answered something else: False.
C15_Witness ==
    login.result = "False" /\ login.post = "200" /\ login.status = "other"

\* C16: every error raised at a step of the session attempt is caught inside
\* run() and leads to teardown; no error propagates out of run() and main()
\* to end the host process.
C16_NoErrorEscapes == pc # "raised"

\* C17: _stop_ffmpeg() is safe in every handle state and idempotent: it
\* raises nothing and can always go on to its end; terminate() is sent only
\* to a handle whose process is still running and kill() only to one that
\* outlived terminate(); when the call returns the handle is None; and a
\* call that finds the handle None changes nothing.
C17_StopIdempotent ==
    [][ /\ pc' # "raised"
        /\ (pc \in {"stop", "stop_wait"} =>
                ENABLED (StopFfmpeg \/ StopWaitExited \/ StopWaitTimeout))'
        /\ (terminated' # terminated =>
                (process = "Popen" /\ ffmpeg \in {"running", "stalled"}))
        /\ (killed' # killed =>
                (process = "Popen" /\ terminated /\ ffmpeg \in {"running", "stalled"}))
        /\ ((pc \in {"stop", "stop_wait"} /\ pc' \in {"returned", "cancelled"}) =>
                process' = "None")
        /\ ((pc = "stop" /\ process = "None" /\ pc' # pc) =>
                /\ pc' \in {"returned", "cancelled"}
                /\ UNCHANGED << process, ffmpeg, terminated, killed, wr, written >>)
      ]_vars

\* The second call: the first one had to kill the process, the handle is None.
C17_Witness == pc = "stop" /\ process = "None" /\ terminated /\ killed

\* C18: an ERROR, CLOSE, CLOSING or CLOSED message ends the frame sequence:
\* the step that receives it goes to teardown, and from then on no message
\* is received, nothing is handed to the executor thread and nothing is
\* written to FFmpeg; and the step that receives a message that is not
\* BINARY hands nothing to the thread and writes nothing.
C18_CloseEndsSequence ==
    [][ /\ (msg'.type \in CloseTypes =>
                pc' \in {"stop", "stop_wait", "returned", "cancelled", "exit"})
        /\ (msg.type \in CloseTypes =>
                /\ msg' = msg
                /\ UNCHANGED << received, written, wr, wjob >>
                /\ wr = "idle")
        /\ ((msg' # msg /\ msg'.type # "BINARY") =>
                UNCHANGED << received, written, wr, wjob >>)
      ]_vars

\* A close message arrived after a frame had been written, and run() returned.
C18_Witness ==
    msg.type \in CloseTypes /\ Len(written) >= 1 /\ pc = "returned"

\* C19: the executor thread never reads self.process (or its stdin) while or
\* after _stop_ffmpeg() clears it: no read of the handle by _process_write
\* finds None.
C19_WriterNeverReadsClearedHandle == wr # "failed"

\* C20: at most one write to FFmpeg's stdin is in progress: a chunk is handed
\* to the executor only when the thread is idle, never while an earlier
\* write, one whose 10 s wait timed out included, has not finished.
C20_OneWriteInProgress ==
    [][ (wjob' # wjob \/ (wr' = "queued" /\ wr # "queued")) => wr = "idle" ]_vars

\* A write outlived its 10 s wait and is still running in the thread, after
\* an earlier chunk had been written.
C20_Witness ==
    pc = "stderr_timeout" /\ wr \in {"writing", "flushing"} /\ Len(written) >= 1

====
